---- MODULE Spec2Model ----
(***************************************************************************)
(* Model of the fractal explorer (src/src/main.rs): the viewport (center,  *)
(* zoom, variant, Julia constant), the pan / rectangle-select gesture      *)
(* flags, the redraw flag and the cached texture of MandelbrotApp, the     *)
(* per-frame callback MandelbrotApp::update, and the pure functions        *)
(* zoom_to_rectangle, generate_koch_segments, generate_koch_curve with     *)
(* draw_line, and the escape-time loop.                                    *)
(*                                                                         *)
(* Numbers.  The program computes in f64 (positions in f32).  A number is  *)
(* a triple <<p, q, d>> standing for (p + q*sqrt(3)) / d:                  *)
(*   d > 0   a finite value, kept in lowest terms;                         *)
(*   d = 0   an IEEE special: <<1,0,0>> = +inf, <<-1,0,0>> = -inf,         *)
(*           <<0,0,0>> = NaN.                                              *)
(* Finite arithmetic is exact (no rounding); division by zero, inf - inf,  *)
(* 0 * inf and comparisons with NaN follow IEEE 754 as Rust implements     *)
(* them.  Zero is unsigned (+0).  The sqrt(3) component is what the Koch   *)
(* construction needs (3.0_f64.sqrt()).  Rounding enters in one place: the *)
(* cast `as i32` of draw_line, which cuts toward zero, may give either     *)
(* neighbour of a pixel boundary that the exact value sits on.             *)
(***************************************************************************)
EXTENDS Integers, Sequences, FiniteSets, TLC

(***************************************************************************)
(* Integer helpers                                                         *)
(***************************************************************************)
Abs(n) == IF n < 0 THEN -n ELSE n

RECURSIVE GCD(_, _)
GCD(a, b) == IF b = 0 THEN a ELSE GCD(b, a % b)

Sgn(n) == IF n > 0 THEN 1 ELSE IF n < 0 THEN -1 ELSE 0

(***************************************************************************)
(* The number domain                                                       *)
(***************************************************************************)
NaN == <<0, 0, 0>>
PInf == <<1, 0, 0>>
NInf == <<-1, 0, 0>>

\* (p + q*sqrt(3)) / d in lowest terms, d > 0
Norm(p, q, d) ==
    LET g == GCD(GCD(Abs(p), Abs(q)), d)
    IN  <<p \div g, q \div g, d \div g>>

Rat(n, d) == Norm(n, 0, d)
FromInt(n) == <<n, 0, 1>>

IsNaN(x) == x = NaN
IsInf(x) == x = PInf \/ x = NInf
IsFinite(x) == x[3] > 0

\* sign of p + q*sqrt(3); for an infinity its sign; 0 for NaN
SignOf(x) ==
    LET p == x[1]
        q == x[2]
    IN  IF p >= 0 /\ q >= 0 THEN (IF p = 0 /\ q = 0 THEN 0 ELSE 1)
        ELSE IF p <= 0 /\ q <= 0 THEN -1
        ELSE IF p > 0 THEN (IF p * p > 3 * q * q THEN 1 ELSE -1)
        ELSE (IF 3 * q * q > p * p THEN 1 ELSE -1)

IsZero(x) == IsFinite(x) /\ x[1] = 0 /\ x[2] = 0

FNeg(x) == <<-x[1], -x[2], x[3]>>

InfOfSign(s) == IF s >= 0 THEN PInf ELSE NInf

FAdd(x, y) ==
    IF IsNaN(x) \/ IsNaN(y) THEN NaN
    ELSE IF IsInf(x) THEN (IF IsInf(y) /\ y # x THEN NaN ELSE x)
    ELSE IF IsInf(y) THEN y
    ELSE LET g == GCD(x[3], y[3])
             a == y[3] \div g
             b == x[3] \div g
         IN  Norm(x[1] * a + y[1] * b, x[2] * a + y[2] * b, x[3] * a)

FSub(x, y) == FAdd(x, FNeg(y))

FMul(x, y) ==
    IF IsNaN(x) \/ IsNaN(y) THEN NaN
    ELSE IF IsInf(x) \/ IsInf(y)
         THEN (IF IsZero(x) \/ IsZero(y) THEN NaN
               ELSE InfOfSign(SignOf(x) * SignOf(y)))
    ELSE Norm(x[1] * y[1] + 3 * x[2] * y[2],
              x[1] * y[2] + x[2] * y[1],
              x[3] * y[3])

\* 1 / y for a finite nonzero y: d*(p - q*sqrt(3)) / (p*p - 3*q*q)
Recip(y) ==
    IF y[2] = 0 THEN Norm(Sgn(y[1]) * y[3], 0, Abs(y[1]))
    ELSE LET n == y[1] * y[1] - 3 * y[2] * y[2]
             s == Sgn(n)
         IN  Norm(s * y[3] * y[1], -s * y[3] * y[2], Abs(n))

FDiv(x, y) ==
    IF IsNaN(x) \/ IsNaN(y) THEN NaN
    ELSE IF IsInf(x) THEN (IF IsInf(y) THEN NaN
                           ELSE IF IsZero(y) THEN x
                           ELSE InfOfSign(SignOf(x) * SignOf(y)))
    ELSE IF IsInf(y) THEN FromInt(0)
    ELSE IF IsZero(y) THEN (IF IsZero(x) THEN NaN ELSE InfOfSign(SignOf(x)))
    ELSE FMul(x, Recip(y))

\* -1, 0, 1 as x <, =, > y; neither argument is NaN
Cmp(x, y) ==
    IF x = y THEN 0
    ELSE IF x = PInf \/ y = NInf THEN 1
    ELSE IF x = NInf \/ y = PInf THEN -1
    ELSE SignOf(FSub(x, y))

FLt(x, y) == ~IsNaN(x) /\ ~IsNaN(y) /\ Cmp(x, y) < 0
FLe(x, y) == ~IsNaN(x) /\ ~IsNaN(y) /\ Cmp(x, y) <= 0
FGt(x, y) == FLt(y, x)
FGe(x, y) == FLe(y, x)

\* f64::min / f64::max: a NaN argument is ignored
FMin(x, y) == IF IsNaN(x) THEN y ELSE IF IsNaN(y) THEN x
              ELSE IF FLt(y, x) THEN y ELSE x
FMax(x, y) == IF IsNaN(x) THEN y ELSE IF IsNaN(y) THEN x
              ELSE IF FGt(y, x) THEN y ELSE x

\* f32::clamp: NaN stays NaN
FClamp(x, lo, hi) == IF IsNaN(x) THEN NaN
                     ELSE IF FLt(x, lo) THEN lo
                     ELSE IF FGt(x, hi) THEN hi ELSE x

FAbs(x) == IF SignOf(x) < 0 THEN FNeg(x) ELSE x

\* the integer square root, rounded down (Newton's iteration from above)
RECURSIVE ISqrtFrom(_, _)
ISqrtFrom(n, r) ==
    LET next == (r + n \div r) \div 2
    IN  IF next >= r THEN r ELSE ISqrtFrom(n, next)

ISqrt(n) == IF n = 0 THEN 0 ELSE ISqrtFrom(n, IF n < 46340 THEN n ELSE 46340)

IsSquare(n) == n >= 0 /\ ISqrt(n) * ISqrt(n) = n

\* f64::sqrt: NaN below zero; on the positive rationals it is taken where the
\* root lies in the field again (a / b or a * sqrt(3) / b), and has no value
\* elsewhere
FSqrt(x) ==
    IF IsNaN(x) \/ SignOf(x) < 0 THEN NaN
    ELSE IF x = PInf \/ IsZero(x) THEN x
    ELSE IF x[2] = 0 /\ IsSquare(x[1]) /\ IsSquare(x[3])
    THEN <<ISqrt(x[1]), 0, ISqrt(x[3])>>
    ELSE IF x[2] = 0 /\ x[1] % 3 = 0 /\ IsSquare(x[1] \div 3) /\ IsSquare(x[3])
    THEN Norm(0, ISqrt(x[1] \div 3), ISqrt(x[3]))
    ELSE IF x[2] = 0 /\ x[3] % 3 = 0 /\ IsSquare(x[1]) /\ IsSquare(x[3] \div 3)
    THEN Norm(0, ISqrt(x[1]), 3 * ISqrt(x[3] \div 3))
    ELSE CHOOSE r \in {} : TRUE

(***************************************************************************)
(* Program constants and the inputs the environment (egui) delivers        *)
(***************************************************************************)
WIDTH == 1200
HEIGHT == 800

\* operations applied on top of a canonical view
MaxOps == 1

None == <<>>
Pos2(x, y) == <<FromInt(x), FromInt(y)>>

\* pointer positions: inside the image, on its corners, outside it
Positions == {Pos2(0, 0), Pos2(900, 600), Pos2(905, 700),
              Pos2(1200, 800), Pos2(1300, 900)}

\* the rectangle the image widget occupies this frame (response.rect)
FullRect == [min |-> Pos2(0, 0), max |-> Pos2(1200, 800)]
ThinRect == [min |-> Pos2(0, 0), max |-> Pos2(0, 800)]
ImageRects == {FullRect, ThinRect}

FractalTypes == {"Mandelbrot", "Julia", "Koch"}

\* values the two Julia sliders (range -2.0..=2.0) are moved to
SliderValues == {FromInt(-2), FromInt(2)}

Presets == {<<Rat(-7269, 10000), Rat(1889, 10000)>>,   \* Dragon
            <<Rat(-75, 100), Rat(11, 100)>>,           \* Spiral
            <<Rat(-4, 10), Rat(6, 10)>>,               \* Lightning
            <<Rat(-123, 1000), Rat(745, 1000)>>}       \* Douady Rabbit

ArrowKeys == {"ArrowLeft", "ArrowRight", "ArrowUp", "ArrowDown"}

\* the deepest subdivision generate_koch_curve asks for
MaxDepth == 5

\* end points of segments: the corners of a 3 by 4 rectangle (sides and
\* diagonals of lengths 3, 4, 5; equal corners give a segment of length 0),
\* and the base line generate_koch_curve draws in the canonical Koch view
KochPoints == {<<FromInt(0), FromInt(0)>>, <<FromInt(3), FromInt(0)>>,
               <<FromInt(3), FromInt(4)>>, <<FromInt(0), FromInt(4)>>}
CurveStart == <<Rat(-5, 4), Rat(-2, 10)>>
CurveEnd == <<Rat(5, 4), Rat(-2, 10)>>

\* views whose orbits stay short or cycle: centers 0, -1 and i (inside the
\* set), the canonical Mandelbrot view, and a center that is NaN
EscapeCenters == {<<FromInt(0), FromInt(0)>>, <<FromInt(-1), FromInt(0)>>,
                  <<FromInt(0), FromInt(1)>>}
EscapeZooms == {Rat(8, 10), FromInt(1), Rat(3, 2), FromInt(10), FromInt(1000),
                FromInt(100000000), PInf}
JuliaConstants == {<<FromInt(0), FromInt(0)>>, <<FromInt(-1), FromInt(0)>>,
                   <<FromInt(-2), FromInt(0)>>}
CenterPixel == <<600, 400>>
CanonicalPixels == {<<0, 0>>, <<1199, 799>>, <<200, 400>>, <<1000, 400>>,
                    <<600, 0>>}

(***************************************************************************)
(* State                                                                   *)
(***************************************************************************)
VARIABLES
    texture,              \* None, or the view the cached image was drawn from
    center_x, center_y, zoom,
    dragging, last_mouse_pos, needs_redraw,
    zoom_rect_start, zoom_rect_end, selecting_zoom_rect,
    fractal_type, julia_c_real, julia_c_imag,
    show_controls,
    widget_dragged,       \* egui: a drag of the image widget is in progress
    pc,                   \* position inside update(): "panel" or "central"
    ev,                   \* the input event the last step handled
    ops,                  \* changes of the view since the last canonical view
    edits,                \* changes of julia_c and show_controls so far
    pan_origin,           \* None, or where the pan gesture in progress began
    call,                 \* None, or the arguments of a function called alone
    ret                   \* None, or what that call returned

app == <<texture, center_x, center_y, zoom, dragging, last_mouse_pos,
         needs_redraw, zoom_rect_start, zoom_rect_end, selecting_zoom_rect,
         fractal_type, julia_c_real, julia_c_imag, show_controls>>

vars == <<app, widget_dragged, pc, ev, ops, edits, pan_origin, call, ret>>

\* the MandelbrotApp struct as a record
Self ==
    [texture |-> texture,
     center_x |-> center_x, center_y |-> center_y, zoom |-> zoom,
     dragging |-> dragging, last_mouse_pos |-> last_mouse_pos,
     needs_redraw |-> needs_redraw,
     zoom_rect_start |-> zoom_rect_start, zoom_rect_end |-> zoom_rect_end,
     selecting_zoom_rect |-> selecting_zoom_rect,
     fractal_type |-> fractal_type,
     julia_c_real |-> julia_c_real, julia_c_imag |-> julia_c_imag,
     show_controls |-> show_controls]

\* impl Default for MandelbrotApp
Default ==
    [texture |-> None,
     center_x |-> Rat(-1, 2), center_y |-> FromInt(0), zoom |-> FromInt(1),
     dragging |-> FALSE, last_mouse_pos |-> None,
     needs_redraw |-> TRUE,
     zoom_rect_start |-> None, zoom_rect_end |-> None,
     selecting_zoom_rect |-> FALSE,
     fractal_type |-> "Mandelbrot",
     julia_c_real |-> Rat(-7269, 10000), julia_c_imag |-> Rat(1889, 10000),
     show_controls |-> TRUE]

\* an input event: its kind; a drag's position and modifier; a pointer-up's
\* image rectangle and the selection <<start, end>> it found
Event(kind, pos, shift, rect, sel) ==
    [kind |-> kind, pos |-> pos, shift |-> shift, rect |-> rect, sel |-> sel]
KeyEvent(kind) == Event(kind, None, FALSE, None, None)

(***************************************************************************)
(* update(): the side panel (lines 69-188)                                 *)
(***************************************************************************)
\* ComboBox: selectable_value reports a change only for a different variant
select_fractal_type(s, v) ==
    IF v = s.fractal_type THEN s
    ELSE LET t == [s EXCEPT !.fractal_type = v, !.needs_redraw = TRUE]
         IN  IF v = "Mandelbrot"
             THEN [t EXCEPT !.center_x = Rat(-1, 2), !.center_y = FromInt(0),
                            !.zoom = FromInt(1)]
             ELSE IF v = "Julia"
             THEN [t EXCEPT !.center_x = FromInt(0), !.center_y = FromInt(0),
                            !.zoom = Rat(3, 2)]
             ELSE [t EXCEPT !.center_x = FromInt(0), !.center_y = Rat(-2, 10),
                            !.zoom = Rat(8, 10)]

\* the two sliders, shown for the Julia variant only
slider_real(s, v) ==
    IF s.fractal_type = "Julia" /\ v # s.julia_c_real
    THEN [s EXCEPT !.julia_c_real = v, !.needs_redraw = TRUE] ELSE s

slider_imag(s, v) ==
    IF s.fractal_type = "Julia" /\ v # s.julia_c_imag
    THEN [s EXCEPT !.julia_c_imag = v, !.needs_redraw = TRUE] ELSE s

\* the preset buttons, shown for the Julia variant only
preset(s, c) ==
    IF s.fractal_type = "Julia"
    THEN [s EXCEPT !.julia_c_real = c[1], !.julia_c_imag = c[2],
                   !.needs_redraw = TRUE]
    ELSE s

\* a Reset View whose Koch branch repeats the Mandelbrot values
reset_view_koch_as_mandelbrot(s) ==
    LET t == IF s.fractal_type = "Julia"
             THEN [s EXCEPT !.center_x = FromInt(0), !.center_y = FromInt(0),
                            !.zoom = Rat(3, 2)]
             ELSE [s EXCEPT !.center_x = Rat(-1, 2), !.center_y = FromInt(0),
                            !.zoom = FromInt(1)]
    IN  [t EXCEPT !.needs_redraw = TRUE]

\* the "Reset View" button
reset_view(s) ==
    LET t == IF s.fractal_type = "Mandelbrot"
             THEN [s EXCEPT !.center_x = Rat(-1, 2), !.center_y = FromInt(0),
                            !.zoom = FromInt(1)]
             ELSE IF s.fractal_type = "Julia"
             THEN [s EXCEPT !.center_x = FromInt(0), !.center_y = FromInt(0),
                            !.zoom = Rat(3, 2)]
             ELSE [s EXCEPT !.center_x = FromInt(0), !.center_y = Rat(-2, 10),
                            !.zoom = Rat(8, 10)]
    IN  [t EXCEPT !.needs_redraw = TRUE]

(***************************************************************************)
(* update(): the keys (lines 190-230)                                      *)
(***************************************************************************)
key_tab(s) == [s EXCEPT !.show_controls = ~s.show_controls]

\* a zoom-in that leaves the dirty flag alone
key_plus_no_redraw(s) == [s EXCEPT !.zoom = FMul(s.zoom, Rat(15, 10))]

key_plus(s) == [s EXCEPT !.zoom = FMul(s.zoom, Rat(15, 10)),
                         !.needs_redraw = TRUE]

\* a zoom-out that steps the zoom down by one instead of scaling it
key_minus_additive(s) == [s EXCEPT !.zoom = FSub(s.zoom, FromInt(1)),
                                   !.needs_redraw = TRUE]

key_minus(s) == [s EXCEPT !.zoom = FMul(s.zoom, Rat(67, 100)),
                          !.needs_redraw = TRUE]

key_arrow(s, key) ==
    LET pan_distance == FDiv(Rat(1, 10), s.zoom)
        t == IF key = "ArrowLeft"
             THEN [s EXCEPT !.center_x = FSub(s.center_x, pan_distance)]
             ELSE IF key = "ArrowRight"
             THEN [s EXCEPT !.center_x = FAdd(s.center_x, pan_distance)]
             ELSE IF key = "ArrowUp"
             THEN [s EXCEPT !.center_y = FSub(s.center_y, pan_distance)]
             ELSE [s EXCEPT !.center_y = FAdd(s.center_y, pan_distance)]
    IN  [t EXCEPT !.needs_redraw = TRUE]

(***************************************************************************)
(* update(): the central panel (lines 232-334)                             *)
(***************************************************************************)
\* the image is a function of the view it is drawn from
generate_fractal_image(s) ==
    [fractal_type |-> s.fractal_type,
     center_x |-> s.center_x, center_y |-> s.center_y, zoom |-> s.zoom,
     julia_c_real |-> s.julia_c_real, julia_c_imag |-> s.julia_c_imag]

\* the recompute gate
recompute(s) ==
    IF s.texture = None \/ s.needs_redraw
    THEN [s EXCEPT !.texture = generate_fractal_image(s),
                   !.needs_redraw = FALSE]
    ELSE s

\* the scroll wheel over the image, scroll_delta # 0
scroll(s, up) ==
    LET zoom_factor == IF up THEN Rat(11, 10) ELSE Rat(9, 10)
    IN  [s EXCEPT !.zoom = FMul(s.zoom, zoom_factor), !.needs_redraw = TRUE]

\* egui::Rect::contains: the borders belong to the rectangle
Contains(rect, pos) ==
    /\ FLe(rect.min[1], pos[1]) /\ FLe(pos[1], rect.max[1])
    /\ FLe(rect.min[2], pos[2]) /\ FLe(pos[2], rect.max[2])

drag_started(s, mouse_pos, shift_held, image_rect) ==
    IF Contains(image_rect, mouse_pos)
    THEN IF shift_held
         THEN [s EXCEPT !.zoom_rect_start = mouse_pos,
                        !.selecting_zoom_rect = TRUE]
         ELSE [s EXCEPT !.last_mouse_pos = mouse_pos, !.dragging = TRUE]
    ELSE s

\* a pan that forgets to move last_mouse_pos along
dragged_stale_last(s, mouse_pos, shift_held) ==
    IF s.selecting_zoom_rect /\ shift_held
    THEN [s EXCEPT !.zoom_rect_end = mouse_pos]
    ELSE IF s.dragging /\ ~shift_held /\ s.last_mouse_pos # None
    THEN [s EXCEPT
            !.center_x = FSub(s.center_x,
                FMul(FSub(mouse_pos[1], s.last_mouse_pos[1]),
                     FDiv(FDiv(FromInt(9), FromInt(2)), FMul(s.zoom, FromInt(WIDTH))))),
            !.center_y = FSub(s.center_y,
                FMul(FSub(mouse_pos[2], s.last_mouse_pos[2]),
                     FDiv(FromInt(3), FMul(s.zoom, FromInt(HEIGHT))))),
            !.needs_redraw = TRUE]
    ELSE s

dragged(s, mouse_pos, shift_held) ==
    IF s.selecting_zoom_rect /\ shift_held
    THEN [s EXCEPT !.zoom_rect_end = mouse_pos]
    ELSE IF s.dragging /\ ~shift_held
    THEN LET t == IF s.last_mouse_pos # None
                  THEN LET delta_x == FSub(mouse_pos[1], s.last_mouse_pos[1])
                           delta_y == FSub(mouse_pos[2], s.last_mouse_pos[2])
                           aspect_ratio == FDiv(FromInt(WIDTH), FromInt(HEIGHT))
                           height_range == FDiv(FromInt(3), s.zoom)
                           width_range == FMul(height_range, aspect_ratio)
                           scale_x == FDiv(width_range, FromInt(WIDTH))
                           scale_y == FDiv(height_range, FromInt(HEIGHT))
                       IN  [s EXCEPT
                              !.center_x = FSub(s.center_x, FMul(delta_x, scale_x)),
                              !.center_y = FSub(s.center_y, FMul(delta_y, scale_y)),
                              !.needs_redraw = TRUE]
                  ELSE s
         IN  [t EXCEPT !.last_mouse_pos = mouse_pos]
    ELSE s

(***************************************************************************)
(* zoom_to_rectangle (lines 621-686)                                       *)
(***************************************************************************)
\* a filter that rejects only a rectangle tiny in both dimensions
TinyRectBoth(start, end) ==
    /\ FLt(FAbs(FSub(end[1], start[1])), FromInt(10))
    /\ FLt(FAbs(FSub(end[2], start[2])), FromInt(10))

\* the 10-pixel filter
TinyRect(start, end) ==
    LET rect_width == FAbs(FSub(end[1], start[1]))
        rect_height == FAbs(FSub(end[2], start[2]))
    IN  FLt(rect_width, FromInt(10)) \/ FLt(rect_height, FromInt(10))

\* the selection's corners relative to the image, clamped (lines 632-645)
rel_coords(start, end, image_rect) ==
    LET rect_start == <<FMin(start[1], end[1]), FMin(start[2], end[2])>>
        rect_end == <<FMax(start[1], end[1]), FMax(start[2], end[2])>>
        image_width == FSub(image_rect.max[1], image_rect.min[1])
        image_height == FSub(image_rect.max[2], image_rect.min[2])
        rel_start_x == FDiv(FSub(rect_start[1], image_rect.min[1]), image_width)
        rel_start_y == FDiv(FSub(rect_start[2], image_rect.min[2]), image_height)
        rel_end_x == FDiv(FSub(rect_end[1], image_rect.min[1]), image_width)
        rel_end_y == FDiv(FSub(rect_end[2], image_rect.min[2]), image_height)
    IN  [start_x |-> FClamp(rel_start_x, FromInt(0), FromInt(1)),
         start_y |-> FClamp(rel_start_y, FromInt(0), FromInt(1)),
         end_x |-> FClamp(rel_end_x, FromInt(0), FromInt(1)),
         end_y |-> FClamp(rel_end_y, FromInt(0), FromInt(1))]

\* the extent of the current view (lines 648-650)
view_ranges(s) ==
    LET aspect_ratio == FDiv(FromInt(WIDTH), FromInt(HEIGHT))
        height_range == FDiv(FromInt(3), s.zoom)
    IN  [width_range |-> FMul(height_range, aspect_ratio),
         height_range |-> height_range]

\* current_left, current_right, current_top, current_bottom (lines 652-655)
current_bounds(s, r) ==
    [left |-> FSub(s.center_x, FDiv(r.width_range, FromInt(2))),
     right |-> FAdd(s.center_x, FDiv(r.width_range, FromInt(2))),
     top |-> FSub(s.center_y, FDiv(r.height_range, FromInt(2))),
     bottom |-> FAdd(s.center_y, FDiv(r.height_range, FromInt(2)))]

\* selected_left, selected_right, selected_top, selected_bottom
\* (lines 658-661)
selected_bounds(c, rel) ==
    [left |-> FAdd(c.left, FMul(rel.start_x, FSub(c.right, c.left))),
     right |-> FAdd(c.left, FMul(rel.end_x, FSub(c.right, c.left))),
     top |-> FAdd(c.top, FMul(rel.start_y, FSub(c.bottom, c.top))),
     bottom |-> FAdd(c.top, FMul(rel.end_y, FSub(c.bottom, c.top)))]

\* the new center and the zoom factor (lines 664-674)
zoom_rect_target(r, sel) ==
    [width_range |-> r.width_range, height_range |-> r.height_range,
     selected_left |-> sel.left, selected_right |-> sel.right,
     selected_top |-> sel.top, selected_bottom |-> sel.bottom,
     new_center_x |-> FDiv(FAdd(sel.left, sel.right), FromInt(2)),
     new_center_y |-> FDiv(FAdd(sel.top, sel.bottom), FromInt(2)),
     selected_width |-> FSub(sel.right, sel.left),
     selected_height |-> FSub(sel.bottom, sel.top),
     zoom_factor |-> FMin(FDiv(r.width_range, FSub(sel.right, sel.left)),
                          FDiv(r.height_range, FSub(sel.bottom, sel.top)))]

\* the values for the selection rel of the view with the extent r
zoom_rect_values(s, r, rel) ==
    zoom_rect_target(r, selected_bounds(current_bounds(s, r), rel))

\* every value the function computes after the filter, by the source's names
ZoomRectValues(s, start, end, image_rect) ==
    zoom_rect_values(s, view_ranges(s), rel_coords(start, end, image_rect))

\* a guard that also lets a factor of exactly one through
zoom_to_rectangle_factor_one(s, start, end, image_rect) ==
    IF TinyRect(start, end) THEN s
    ELSE LET v == ZoomRectValues(s, start, end, image_rect)
         IN  IF FGe(v.zoom_factor, FromInt(1))
             THEN [s EXCEPT !.center_x = v.new_center_x,
                            !.center_y = v.new_center_y,
                            !.zoom = FMul(s.zoom, v.zoom_factor),
                            !.needs_redraw = TRUE]
             ELSE s

zoom_to_rectangle(s, start, end, image_rect) ==
    IF TinyRect(start, end) THEN s
    ELSE LET v == ZoomRectValues(s, start, end, image_rect)
         IN  IF FGt(v.zoom_factor, FromInt(1))
             THEN [s EXCEPT !.center_x = v.new_center_x,
                            !.center_y = v.new_center_y,
                            !.zoom = FMul(s.zoom, v.zoom_factor),
                            !.needs_redraw = TRUE]
             ELSE s

\* a pointer-up that ends a pan and keeps the last pointer position
drag_stopped_keeps_last(s, image_rect) ==
    IF s.selecting_zoom_rect
    THEN LET t == IF s.zoom_rect_start # None /\ s.zoom_rect_end # None
                  THEN zoom_to_rectangle(s, s.zoom_rect_start, s.zoom_rect_end,
                                         image_rect)
                  ELSE s
         IN  [t EXCEPT !.zoom_rect_start = None, !.zoom_rect_end = None,
                       !.selecting_zoom_rect = FALSE]
    ELSE [s EXCEPT !.dragging = FALSE]

\* a pointer-up that leaves the selecting flag set
drag_stopped_keeps_selecting(s, image_rect) ==
    IF s.selecting_zoom_rect
    THEN [s EXCEPT !.zoom_rect_start = None, !.zoom_rect_end = None]
    ELSE [s EXCEPT !.dragging = FALSE, !.last_mouse_pos = None]

drag_stopped(s, image_rect) ==
    IF s.selecting_zoom_rect
    THEN LET t == IF s.zoom_rect_start # None /\ s.zoom_rect_end # None
                  THEN zoom_to_rectangle(s, s.zoom_rect_start, s.zoom_rect_end,
                                         image_rect)
                  ELSE s
         IN  [t EXCEPT !.zoom_rect_start = None, !.zoom_rect_end = None,
                       !.selecting_zoom_rect = FALSE]
    ELSE [s EXCEPT !.dragging = FALSE, !.last_mouse_pos = None]

\* view_bounds with a square window: the aspect ratio is left out
view_bounds_square(s) ==
    LET height_range == FDiv(FromInt(3), s.zoom)
        width_range == height_range
    IN  [left |-> FSub(s.center_x, FDiv(width_range, FromInt(2))),
         right |-> FAdd(s.center_x, FDiv(width_range, FromInt(2))),
         top |-> FSub(s.center_y, FDiv(height_range, FromInt(2))),
         bottom |-> FAdd(s.center_y, FDiv(height_range, FromInt(2)))]

(***************************************************************************)
(* The escape-time loop of generate_fractal_image (lines 403-441)          *)
(***************************************************************************)
\* the bounds of the current view
view_bounds(s) ==
    LET aspect_ratio == FDiv(FromInt(WIDTH), FromInt(HEIGHT))
        height_range == FDiv(FromInt(3), s.zoom)
        width_range == FMul(height_range, aspect_ratio)
    IN  [left |-> FSub(s.center_x, FDiv(width_range, FromInt(2))),
         right |-> FAdd(s.center_x, FDiv(width_range, FromInt(2))),
         top |-> FSub(s.center_y, FDiv(height_range, FromInt(2))),
         bottom |-> FAdd(s.center_y, FDiv(height_range, FromInt(2)))]

\* the point <<px, py>> of the plane that pixel (x, y) shows
pixel_to_plane(s, x, y) ==
    LET b == view_bounds(s)
    IN  <<FAdd(b.left, FMul(FDiv(FromInt(x), FromInt(WIDTH)),
                            FSub(b.right, b.left))),
          FAdd(b.top, FMul(FDiv(FromInt(y), FromInt(HEIGHT)),
                           FSub(b.bottom, b.top)))>>

\* 10^(j/100) for j = 1..99 in ten-thousandths, rounded up: exact as a
\* threshold for every number of at most four decimals
Log10Table ==
    <<10233, 10472, 10716, 10965, 11221, 11482, 11749, 12023, 12303, 12590, 12883,
      13183, 13490, 13804, 14126, 14455, 14792, 15136, 15489, 15849, 16219, 16596,
      16983, 17379, 17783, 18198, 18621, 19055, 19499, 19953, 20418, 20893, 21380,
      21878, 22388, 22909, 23443, 23989, 24548, 25119, 25704, 26303, 26916, 27543,
      28184, 28841, 29513, 30200, 30903, 31623, 32360, 33114, 33885, 34674, 35482,
      36308, 37154, 38019, 38905, 39811, 40739, 41687, 42658, 43652, 44669, 45709,
      46774, 47864, 48978, 50119, 51287, 52481, 53704, 54955, 56235, 57544, 58885,
      60256, 61660, 63096, 64566, 66070, 67609, 69184, 70795, 72444, 74132, 75858,
      77625, 79433, 81284, 83177, 85114, 87097, 89126, 91202, 93326, 95500, 97724>>

\* the whole hundredths of log10(z), for a finite z >= 1
RECURSIVE Log10Hundredths(_)
Log10Hundredths(z) ==
    IF FGe(z, FromInt(10)) THEN 100 + Log10Hundredths(FDiv(z, FromInt(10)))
    ELSE Cardinality({j \in 1..99 : FGe(z, Rat(Log10Table[j], 10000))})

\* an iteration limit without the cap
max_iter_uncapped(s) ==
    IF s.zoom = PInf THEN 2147483647
    ELSE IF FGt(s.zoom, FromInt(1)) THEN 255 + Log10Hundredths(s.zoom)
    ELSE 255

\* (255.0 + (zoom.log10() * 100.0).max(0.0)) as i32, then .min(1000): the
\* cast cuts the fraction off and turns +inf into i32::MAX; .max(0.0) turns
\* a negative, infinite or NaN logarithm into 0.0
max_iter(s) ==
    IF s.zoom = PInf THEN 1000
    ELSE IF FGt(s.zoom, FromInt(1))
    THEN IF 255 + Log10Hundredths(s.zoom) < 1000
         THEN 255 + Log10Hundredths(s.zoom) ELSE 1000
    ELSE 255

\* the loop's variables at its entry, for pixel (x, y)
escape_entry(s, x, y) ==
    LET p == pixel_to_plane(s, x, y)
        mandelbrot == s.fractal_type = "Mandelbrot"
    IN  [zx |-> IF mandelbrot THEN FromInt(0) ELSE p[1],
         zy |-> IF mandelbrot THEN FromInt(0) ELSE p[2],
         cx |-> IF mandelbrot THEN p[1] ELSE s.julia_c_real,
         cy |-> IF mandelbrot THEN p[2] ELSE s.julia_c_imag,
         max_iter |-> max_iter(s),
         iter |-> 0,
         done |-> FALSE]

\* the loop's condition
escape_continues(l) ==
    /\ FLt(FAdd(FMul(l.zx, l.zx), FMul(l.zy, l.zy)), FromInt(4))
    /\ l.iter < l.max_iter

\* the loop's body
escape_body(l) ==
    LET xtemp == FAdd(FSub(FMul(l.zx, l.zx), FMul(l.zy, l.zy)), l.cx)
    IN  [l EXCEPT !.zy = FAdd(FMul(FMul(FromInt(2), l.zx), l.zy), l.cy),
                  !.zx = xtemp,
                  !.iter = l.iter + 1]

(***************************************************************************)
(* The Koch curve (lines 526-578)                                          *)
(***************************************************************************)
\* a subdivision that leaves out the last of the four parts
RECURSIVE generate_koch_segments_three(_, _, _, _)
generate_koch_segments_three(start, end, depth, segments) ==
    IF depth = 0 THEN Append(segments, <<start, end>>)
    ELSE LET dx == FSub(end[1], start[1])
             dy == FSub(end[2], start[2])
             p2 == <<FAdd(start[1], FDiv(dx, FromInt(3))),
                     FAdd(start[2], FDiv(dy, FromInt(3)))>>
             p4 == <<FAdd(start[1], FDiv(FMul(FromInt(2), dx), FromInt(3))),
                     FAdd(start[2], FDiv(FMul(FromInt(2), dy), FromInt(3)))>>
             p3 == <<FDiv(FAdd(p2[1], p4[1]), FromInt(2)),
                     FDiv(FAdd(p2[2], p4[2]), FromInt(2))>>
         IN  segments
               \o generate_koch_segments_three(start, p2, depth - 1, <<>>)
               \o generate_koch_segments_three(p2, p3, depth - 1, <<>>)
               \o generate_koch_segments_three(p3, p4, depth - 1, <<>>)

\* segments is the Vec the calls push to: what each of the four recursive
\* calls pushes lands behind what the Vec holds by then, in the calls' order
RECURSIVE generate_koch_segments(_, _, _, _)
generate_koch_segments(start, end, depth, segments) ==
    IF depth = 0 THEN Append(segments, <<start, end>>)
    ELSE LET dx == FSub(end[1], start[1])
             dy == FSub(end[2], start[2])
             p1 == start
             p2 == <<FAdd(start[1], FDiv(dx, FromInt(3))),
                     FAdd(start[2], FDiv(dy, FromInt(3)))>>
             p4 == <<FAdd(start[1], FDiv(FMul(FromInt(2), dx), FromInt(3))),
                     FAdd(start[2], FDiv(FMul(FromInt(2), dy), FromInt(3)))>>
             p5 == end
             mid_x == FDiv(FAdd(p2[1], p4[1]), FromInt(2))
             mid_y == FDiv(FAdd(p2[2], p4[2]), FromInt(2))
             length == FSqrt(FAdd(FMul(dx, dx), FMul(dy, dy)))
             segment_length == FDiv(length, FromInt(3))
             height == FMul(segment_length, FDiv(FSqrt(FromInt(3)), FromInt(2)))
             normal_x == FDiv(FNeg(dy), length)
             normal_y == FDiv(dx, length)
             p3 == <<FAdd(mid_x, FMul(normal_x, height)),
                     FAdd(mid_y, FMul(normal_y, height))>>
         IN  segments
               \o generate_koch_segments(p1, p2, depth - 1, <<>>)
               \o generate_koch_segments(p2, p3, depth - 1, <<>>)
               \o generate_koch_segments(p3, p4, depth - 1, <<>>)
               \o generate_koch_segments(p4, p5, depth - 1, <<>>)

\* n * n for 0 <= n < 2^23 as <<h, l>>, standing for h * 2^15 + l with
\* l < 2^15: the square does not fit the 32 bits of the checker's integers
Square(n) ==
    <<(n \div 32768) * (n \div 32768) * 32768
         + 2 * (n \div 32768) * (n % 32768)
         + ((n % 32768) * (n % 32768)) \div 32768,
      ((n % 32768) * (n % 32768)) % 32768>>

\* r * r <= 3 * q * q
SquareLeThrice(r, q) ==
    LET a == Square(r)
        b == <<3 * Square(q)[1] + (3 * Square(q)[2]) \div 32768,
               (3 * Square(q)[2]) % 32768>>
    IN  a[1] < b[1] \/ (a[1] = b[1] /\ a[2] <= b[2])

\* the greatest integer not above q * sqrt(3), q >= 0: one of the floors of
\* q * 3691/2131 and q * 5042/2911, which enclose it
FloorSqrt3(q) ==
    IF SquareLeThrice((q * 5042) \div 2911, q)
    THEN (q * 5042) \div 2911
    ELSE (q * 3691) \div 2131

\* the greatest integer not above a finite number
Floor(x) ==
    IF x[2] = 0 THEN x[1] \div x[3]
    ELSE IF x[2] > 0 THEN (x[1] + FloorSqrt3(x[2])) \div x[3]
    ELSE (x[1] - FloorSqrt3(-x[2]) - 1) \div x[3]

IsInteger(x) == IsFinite(x) /\ x[2] = 0 /\ x[3] = 1

\* a finite number cut toward zero
Trunc(x) ==
    IF Floor(x) >= 0 \/ IsInteger(x) THEN Floor(x) ELSE Floor(x) + 1

\* `as i32` of an f64 computed by a chain of rounded operations: NaN gives
\* 0, an infinity saturates, a finite value is cut toward zero.  Where the
\* exact value of the chain is an integer other than 0, the computed f64 is
\* that integer or a neighbour of it, and the cast gives the integer or, if
\* the f64 fell short of it, the integer next to it toward zero.
as_i32(x, short) ==
    IF IsNaN(x) THEN 0
    ELSE IF x = PInf THEN 2147483647
    ELSE IF x = NInf THEN -2147483647 - 1
    ELSE IF short /\ IsInteger(x) THEN Trunc(x) - Sgn(Trunc(x))
    ELSE Trunc(x)

\* line 528: ((zoom.log2() + 1.0).max(0.0) as usize).min(5); f64::max
\* ignores the NaN that log2 gives for a zoom that is NaN or negative
iterations(s) ==
    IF IsNaN(s.zoom) \/ ~FGe(s.zoom, FromInt(1)) THEN 0
    ELSE IF FLt(s.zoom, FromInt(2)) THEN 1
    ELSE IF FLt(s.zoom, FromInt(4)) THEN 2
    ELSE IF FLt(s.zoom, FromInt(8)) THEN 3
    ELSE IF FLt(s.zoom, FromInt(16)) THEN 4
    ELSE MaxDepth

\* a base segment that stays at the origin of the plane
base_segment_at_origin(s) ==
    LET size == FDiv(FromInt(2), s.zoom)
    IN  <<<<FNeg(FDiv(size, FromInt(2))), FromInt(0)>>,
          <<FDiv(size, FromInt(2)), FromInt(0)>>>>

\* lines 531-534: the base segment <<p1, p2>>
base_segment(s) ==
    LET size == FDiv(FromInt(2), s.zoom)
    IN  <<<<FSub(s.center_x, FDiv(size, FromInt(2))), s.center_y>>,
          <<FAdd(s.center_x, FDiv(size, FromInt(2))), s.center_y>>>>

\* lines 528-538 of generate_koch_curve: the segments handed to draw_line
generate_koch_curve(s) ==
    generate_koch_segments(base_segment(s)[1], base_segment(s)[2],
                           iterations(s), <<>>)

\* lines 591-594 for one end point p of a segment, with the bounds b of
\* lines 582-589: the pixel <<x, y>> the line starts or ends at
to_screen(b, p, short) ==
    <<as_i32(FMul(FDiv(FSub(p[1], b.left), FSub(b.right, b.left)),
                  FromInt(WIDTH)), short.x),
      as_i32(FMul(FDiv(FSub(p[2], b.top), FSub(b.bottom, b.top)),
                  FromInt(HEIGHT)), short.y)>>

\* draw_line, lines 580-594: <<<<sx, sy>>, <<ex, ey>>>>.  The walk between
\* the two pixels (lines 596-618) stamps only pixels that pass its bounds
\* test and is not part of the model.
draw_line(s, start, end, short) ==
    <<to_screen(view_bounds(s), start, short),
      to_screen(view_bounds(s), end, short)>>

\* lines 541-543: the loop over the segments
draw_lines(s, segments, short) ==
    [i \in 1..Len(segments) |->
        draw_line(s, segments[i][1], segments[i][2], short)]

(***************************************************************************)
(* The frame: update() runs the side panel and the keys ("panel"), then    *)
(* the central panel ("central"): the recompute gate, the scroll wheel and *)
(* the pointer.  A step handles one input event of its half of the frame.  *)
(***************************************************************************)
SetSelf(r) ==
    /\ texture' = r.texture
    /\ center_x' = r.center_x
    /\ center_y' = r.center_y
    /\ zoom' = r.zoom
    /\ dragging' = r.dragging
    /\ last_mouse_pos' = r.last_mouse_pos
    /\ needs_redraw' = r.needs_redraw
    /\ zoom_rect_start' = r.zoom_rect_start
    /\ zoom_rect_end' = r.zoom_rect_end
    /\ selecting_zoom_rect' = r.selecting_zoom_rect
    /\ fractal_type' = r.fractal_type
    /\ julia_c_real' = r.julia_c_real
    /\ julia_c_imag' = r.julia_c_imag
    /\ show_controls' = r.show_controls

View(r) == <<r.center_x, r.center_y, r.zoom>>
Settings(r) == <<r.julia_c_real, r.julia_c_imag, r.show_controls>>

\* A key, a scroll, a rectangle zoom, a whole pan gesture and an edit of a
\* setting each spend one of MaxOps; a canonical view gives the view's
\* share back.
Cost(r, pan) ==
    IF View(r) = View(Self) THEN 0
    ELSE IF pan /\ pan_origin # None /\ pan_origin.paid THEN 0
    ELSE 1

\* the step's result r, its event e, and where the pan gesture began
Commit(r, e, next_pc, pan, origin) ==
    /\ (Cost(r, pan) = 0 /\ Settings(r) = Settings(Self))
          \/ ops + edits < MaxOps
    /\ SetSelf(r)
    /\ ev' = e
    /\ pc' = next_pc
    /\ ops' = ops + Cost(r, pan)
    /\ edits' = IF Settings(r) = Settings(Self) THEN edits ELSE edits + 1
    /\ pan_origin' = origin
    /\ UNCHANGED <<call, ret>>

\* the step's result r is a canonical view
CommitCanonical(r, e, next_pc) ==
    /\ SetSelf(r)
    /\ ev' = e
    /\ pc' = next_pc
    /\ ops' = 0
    /\ edits' = edits
    /\ pan_origin' = None
    /\ UNCHANGED <<call, ret>>

\* a step that is no pan: the gesture's origin is void once the view moves
KeepOrigin(r) == IF View(r) = View(Self) THEN pan_origin ELSE None

\* MandelbrotApp::default() and the first frame not yet begun
InitApp ==
    /\ texture = Default.texture
    /\ center_x = Default.center_x
    /\ center_y = Default.center_y
    /\ zoom = Default.zoom
    /\ dragging = Default.dragging
    /\ last_mouse_pos = Default.last_mouse_pos
    /\ needs_redraw = Default.needs_redraw
    /\ zoom_rect_start = Default.zoom_rect_start
    /\ zoom_rect_end = Default.zoom_rect_end
    /\ selecting_zoom_rect = Default.selecting_zoom_rect
    /\ fractal_type = Default.fractal_type
    /\ julia_c_real = Default.julia_c_real
    /\ julia_c_imag = Default.julia_c_imag
    /\ show_controls = Default.show_controls
    /\ widget_dragged = FALSE
    /\ pc = "panel"
    /\ ev = KeyEvent("init")
    /\ ops = 0
    /\ edits = 0
    /\ pan_origin = None

Init == InitApp /\ call = None /\ ret = None

SelectFractalType(v) ==
    /\ pc = "panel"
    /\ v # fractal_type
    /\ CommitCanonical(select_fractal_type(Self, v), KeyEvent("select"), "central")
    /\ UNCHANGED widget_dragged

SliderReal(v) ==
    /\ pc = "panel"
    /\ fractal_type = "Julia"
    /\ v # julia_c_real
    /\ Commit(slider_real(Self, v), KeyEvent("slider"), "central", FALSE,
              KeepOrigin(slider_real(Self, v)))
    /\ UNCHANGED widget_dragged

SliderImag(v) ==
    /\ pc = "panel"
    /\ fractal_type = "Julia"
    /\ v # julia_c_imag
    /\ Commit(slider_imag(Self, v), KeyEvent("slider"), "central", FALSE,
              KeepOrigin(slider_imag(Self, v)))
    /\ UNCHANGED widget_dragged

Preset(c) ==
    /\ pc = "panel"
    /\ fractal_type = "Julia"
    /\ Commit(preset(Self, c), KeyEvent("preset"), "central", FALSE,
              KeepOrigin(preset(Self, c)))
    /\ UNCHANGED widget_dragged

ResetView ==
    /\ pc = "panel"
    /\ CommitCanonical(reset_view(Self), KeyEvent("reset"), "central")
    /\ UNCHANGED widget_dragged

KeyTab ==
    /\ pc = "panel"
    /\ Commit(key_tab(Self), KeyEvent("Tab"), "central", FALSE,
              KeepOrigin(key_tab(Self)))
    /\ UNCHANGED widget_dragged

KeyPlus ==
    /\ pc = "panel"
    /\ Commit(key_plus(Self), KeyEvent("Plus"), "central", FALSE,
              KeepOrigin(key_plus(Self)))
    /\ UNCHANGED widget_dragged

KeyMinus ==
    /\ pc = "panel"
    /\ Commit(key_minus(Self), KeyEvent("Minus"), "central", FALSE,
              KeepOrigin(key_minus(Self)))
    /\ UNCHANGED widget_dragged

KeyArrow(key) ==
    /\ pc = "panel"
    /\ Commit(key_arrow(Self, key), KeyEvent(key), "central", FALSE,
              KeepOrigin(key_arrow(Self, key)))
    /\ UNCHANGED widget_dragged

\* no widget clicked, no key pressed
NoPanelInput ==
    /\ pc = "panel"
    /\ Commit(Self, KeyEvent("none"), "central", FALSE,
              KeepOrigin(Self))
    /\ UNCHANGED widget_dragged

\* no scroll, no pointer event: the recompute gate alone
NoPointerInput ==
    /\ pc = "central"
    /\ Commit(recompute(Self), KeyEvent("none"), "panel", FALSE, pan_origin)
    /\ UNCHANGED widget_dragged

Scroll(up) ==
    /\ pc = "central"
    /\ LET r == scroll(recompute(Self), up)
       IN  Commit(r, KeyEvent("scroll"), "panel", FALSE, KeepOrigin(r))
    /\ UNCHANGED widget_dragged

\* response.drag_started(); response.dragged() may hold in the same frame
PointerDown(mouse_pos, shift_held, image_rect, moved) ==
    /\ pc = "central"
    /\ ~widget_dragged
    /\ LET r0 == drag_started(recompute(Self), mouse_pos, shift_held, image_rect)
           r == IF moved THEN dragged(r0, mouse_pos, shift_held) ELSE r0
       IN  Commit(r, KeyEvent("down"), "panel", FALSE,
                  IF r.dragging
                  THEN [pos |-> mouse_pos, center_x |-> r.center_x,
                        center_y |-> r.center_y, paid |-> FALSE]
                  ELSE None)
    /\ widget_dragged' = TRUE

\* response.dragged()
PointerDrag(mouse_pos, shift_held) ==
    /\ pc = "central"
    /\ widget_dragged
    /\ LET r == dragged(recompute(Self), mouse_pos, shift_held)
       IN  Commit(r, Event("drag", mouse_pos, shift_held, None, None),
                  "panel", TRUE,
                  IF pan_origin # None /\ View(r) # View(Self)
                  THEN [pan_origin EXCEPT !.paid = TRUE] ELSE pan_origin)
    /\ UNCHANGED widget_dragged

\* response.drag_stopped()
PointerUp(image_rect) ==
    /\ pc = "central"
    /\ widget_dragged
    /\ Commit(drag_stopped(recompute(Self), image_rect),
              Event("up", None, FALSE, image_rect,
                    IF selecting_zoom_rect
                    THEN <<zoom_rect_start, zoom_rect_end>> ELSE None),
              "panel", FALSE, None)
    /\ widget_dragged' = FALSE

Next ==
    \/ \E v \in FractalTypes : SelectFractalType(v)
    \/ \E v \in SliderValues : SliderReal(v)
    \/ \E v \in SliderValues : SliderImag(v)
    \/ \E c \in Presets : Preset(c)
    \/ ResetView
    \/ KeyTab
    \/ KeyPlus
    \/ KeyMinus
    \/ \E key \in ArrowKeys : KeyArrow(key)
    \/ NoPanelInput
    \/ NoPointerInput
    \/ \E up \in BOOLEAN : Scroll(up)
    \/ \E mouse_pos \in Positions, shift_held \in BOOLEAN,
          image_rect \in ImageRects, moved \in BOOLEAN :
            PointerDown(mouse_pos, shift_held, image_rect, moved)
    \/ \E mouse_pos \in Positions, shift_held \in BOOLEAN :
            PointerDrag(mouse_pos, shift_held)
    \/ \E image_rect \in ImageRects : PointerUp(image_rect)

Spec == Init /\ [][Next]_vars

(***************************************************************************)
(* The escape-time loop run alone for one pixel: an action per iteration   *)
(***************************************************************************)
\* the application with the given variant, view and Julia constant
AppAt(ft, center, z, c) ==
    [Default EXCEPT !.fractal_type = ft,
                    !.center_x = center[1], !.center_y = center[2],
                    !.zoom = z,
                    !.julia_c_real = c[1], !.julia_c_imag = c[2]]

DefaultC == <<Default.julia_c_real, Default.julia_c_imag>>

EscapeCalls ==
    \* the pixel at a center inside the Mandelbrot set, at every zoom
    {[s |-> AppAt("Mandelbrot", c, z, DefaultC), x |-> CenterPixel[1],
      y |-> CenterPixel[2]] : c \in EscapeCenters, z \in EscapeZooms}
    \* pixels of the canonical Mandelbrot view that escape at once
    \cup {[s |-> AppAt("Mandelbrot", <<Rat(-1, 2), FromInt(0)>>, FromInt(1),
                       DefaultC), x |-> p[1], y |-> p[2]] :
            p \in CanonicalPixels}
    \* a NaN center, as a zero-width image rectangle leaves it
    \cup {[s |-> AppAt("Mandelbrot", <<NaN, FromInt(0)>>, FromInt(2), DefaultC),
           x |-> CenterPixel[1], y |-> CenterPixel[2]]}
    \* the center pixel of the canonical Julia view and of deeper ones
    \cup {[s |-> AppAt("Julia", <<FromInt(0), FromInt(0)>>, z, c),
           x |-> CenterPixel[1], y |-> CenterPixel[2]] :
            z \in EscapeZooms, c \in JuliaConstants}
    \* the first pixel of the canonical Julia view
    \cup {[s |-> AppAt("Julia", <<FromInt(0), FromInt(0)>>, Rat(3, 2), c),
           x |-> 0, y |-> 0] : c \in JuliaConstants}

InitEscape ==
    /\ InitApp
    /\ call \in EscapeCalls
    /\ ret = None

\* lines 416-435
EscapeBegin ==
    /\ call # None /\ ret = None
    /\ ret' = escape_entry(call.s, call.x, call.y)
    /\ UNCHANGED <<app, widget_dragged, pc, ev, ops, edits, pan_origin, call>>

\* lines 436-441, the condition holds
EscapeStep ==
    /\ ret # None /\ ~ret.done
    /\ escape_continues(ret)
    /\ ret' = escape_body(ret)
    /\ UNCHANGED <<app, widget_dragged, pc, ev, ops, edits, pan_origin, call>>

\* line 436, the condition fails
EscapeEnd ==
    /\ ret # None /\ ~ret.done
    /\ ~escape_continues(ret)
    /\ ret' = [ret EXCEPT !.done = TRUE]
    /\ UNCHANGED <<app, widget_dragged, pc, ev, ops, edits, pan_origin, call>>

NextEscape == EscapeBegin \/ EscapeStep \/ EscapeEnd

SpecEscape == InitEscape /\ [][NextEscape]_vars

(***************************************************************************)
(* generate_koch_segments called alone, on an empty Vec                    *)
(***************************************************************************)
InitKoch ==
    /\ InitApp
    /\ call \in [start : KochPoints, end : KochPoints, depth : 0..MaxDepth]
                \cup [start : {CurveStart}, end : {CurveEnd}, depth : 0..MaxDepth]
                \cup [start : {CurveEnd}, end : {CurveStart}, depth : 0..MaxDepth]
    /\ ret = None

GenerateKochSegments ==
    /\ call # None /\ ret = None
    /\ ret' = [segments |-> generate_koch_segments(call.start, call.end,
                                                   call.depth, <<>>)]
    /\ UNCHANGED <<app, widget_dragged, pc, ev, ops, edits, pan_origin, call>>

NextKoch == GenerateKochSegments

SpecKoch == InitKoch /\ [][NextKoch]_vars

(***************************************************************************)
(* generate_koch_curve called alone for two views of the same zoom: first  *)
(* the segments of both (lines 528-538), then their rasterization (lines   *)
(* 541-543), the rounding of each view's f64 chain chosen by the build     *)
(***************************************************************************)
\* zooms of depth 0 (the canonical 0.8, and 1/2), 1 (1, and 6/5 =
\* 0.8 * 1.5), 2, 3, 4 and 5 (+inf)
KochZooms == {Rat(8, 10), Rat(1, 2), FromInt(1), Rat(6, 5), FromInt(2),
              FromInt(4), FromInt(8), PInf}

\* the canonical Koch center and the centers it is compared with
KochCenter == <<FromInt(0), Rat(-2, 10)>>
OtherCenters == {<<Rat(1, 8), Rat(-2, 10)>>, <<FromInt(0), FromInt(0)>>,
                 <<Rat(-1, 2), FromInt(3)>>}

\* a finite zoom of depth 5, for views with whole-numbered centers
DeepZoom == FromInt(16)
DeepCenters == {<<FromInt(0), FromInt(0)>>, <<FromInt(-1), FromInt(3)>>}

KochCurveCalls ==
    {[a |-> AppAt("Koch", KochCenter, z, DefaultC),
      b |-> AppAt("Koch", c, z, DefaultC)] :
         z \in KochZooms, c \in OtherCenters}
    \cup {[a |-> AppAt("Koch", p[1], DeepZoom, DefaultC),
           b |-> AppAt("Koch", p[2], DeepZoom, DefaultC)] :
              p \in {q \in DeepCenters \X DeepCenters : q[1] # q[2]}}

\* which coordinates of a view's end points fell short in f64
Shorts == [x : BOOLEAN, y : BOOLEAN]
Exact == [x |-> FALSE, y |-> FALSE]

InitCurve ==
    /\ InitApp
    /\ call \in KochCurveCalls
    /\ ret = None

GenerateKochCurve ==
    /\ call # None /\ ret = None
    /\ ret' = [stage |-> "segments",
               a |-> generate_koch_curve(call.a),
               b |-> generate_koch_curve(call.b)]
    /\ UNCHANGED <<app, widget_dragged, pc, ev, ops, edits, pan_origin, call>>

DrawLines ==
    /\ ret # None /\ ret.stage = "segments"
    /\ \E short_a \in Shorts, short_b \in Shorts :
          ret' = [stage |-> "image",
                  a |-> draw_lines(call.a, ret.a, short_a),
                  b |-> draw_lines(call.b, ret.b, short_b)]
    /\ UNCHANGED <<app, widget_dragged, pc, ev, ops, edits, pan_origin, call>>

NextCurve == GenerateKochCurve \/ DrawLines

SpecCurve == InitCurve /\ [][NextCurve]_vars

(***************************************************************************)
(* Claims about the interaction state machine and the viewport             *)
(***************************************************************************)
\* the step just taken handled an input event of the given kind
Handled(kind) == pc = "central" /\ pc' = "panel" /\ ev'.kind = kind

\* C1: in every reachable state at most one of the two gestures is active:
\* dragging and selecting_zoom_rect are never both true.
C1_OneGestureAtATime == ~(dragging /\ selecting_zoom_rect)

\* a rectangle selection is in progress after a pan gesture moved the view
C1_Witness ==
    /\ selecting_zoom_rect /\ ~dragging
    /\ zoom_rect_end # None
    /\ ops > 0

\* ViewportModel.pan of the specification: the center moves against the
\* pixel delta, scaled by extent / pixel dimension
PanBy(c, delta, extent, pixels) ==
    FSub(c, FMul(delta, FDiv(extent, FromInt(pixels))))

\* C2: the gesture chosen at pointer-down handles every later pointer-drag
\* whatever the modifier is then: while panning, a drag to pos pans by
\* (pos - last) and sets last = pos; while selecting, it sets end = pos.
C2_ModifierSampledAtStart ==
    [][Handled("drag") =>
         /\ (dragging /\ last_mouse_pos # None) =>
               /\ last_mouse_pos' = ev'.pos
               /\ center_x' = PanBy(center_x,
                                    FSub(ev'.pos[1], last_mouse_pos[1]),
                                    FDiv(FDiv(FromInt(9), FromInt(2)), zoom),
                                    WIDTH)
               /\ center_y' = PanBy(center_y,
                                    FSub(ev'.pos[2], last_mouse_pos[2]),
                                    FDiv(FromInt(3), zoom), HEIGHT)
         /\ selecting_zoom_rect => zoom_rect_end' = ev'.pos]_vars

\* a pan is in progress and a drag arrived with the modifier held: the
\* pointer moved on, last_mouse_pos did not follow
C2_Witness ==
    /\ ev.kind = "drag" /\ ev.shift
    /\ dragging
    /\ last_mouse_pos # None /\ last_mouse_pos # ev.pos

\* C3: zoom > 0 in every reachable state.
C3_ZoomPositive == FGt(zoom, FromInt(0))

\* the zoom-out key has shrunk the zoom below the canonical one
C3_Witness == ev.kind = "Minus" /\ FLt(zoom, Rat(8, 10))

\* C4: no infinite or NaN value is ever written into center or zoom
\* (zoom_to_rectangle guards its divisions against zero).
C4_ViewportFinite ==
    IsFinite(center_x) /\ IsFinite(center_y) /\ IsFinite(zoom)

\* a selection begun on the image's corner and ended outside the image was
\* released: the plane rectangle has no width, the zoom factor is infinite
C4_Witness ==
    /\ ev.kind = "up"
    /\ ev.rect = FullRect
    /\ ev.sel = <<Pos2(1200, 800), Pos2(1300, 900)>>
    /\ zoom = PInf

\* the 10-pixel filter as the claim states it
NarrowSelection(sel) ==
    \/ FLt(FAbs(FSub(sel[2][1], sel[1][1])), FromInt(10))
    \/ FLt(FAbs(FSub(sel[2][2], sel[1][2])), FromInt(10))

Submitted(sel) == sel # None /\ sel[1] # None /\ sel[2] # None

\* C5: a pointer-up whose selection is narrower than 10 pixels in either
\* dimension leaves center, zoom, variant and julia_c unchanged, and the
\* dirty flag as the recompute gate left it (clear).
C5_NarrowSelectionIgnored ==
    [][(Handled("up") /\ Submitted(ev'.sel) /\ NarrowSelection(ev'.sel)) =>
         /\ <<center_x', center_y', zoom'>> = <<center_x, center_y, zoom>>
         /\ fractal_type' = fractal_type
         /\ <<julia_c_real', julia_c_imag'>> = <<julia_c_real, julia_c_imag>>
         /\ needs_redraw' = FALSE]_vars

\* a selection narrow in x only (5 by 100 pixels) has been released
C5_Witness ==
    /\ ev.kind = "up"
    /\ Submitted(ev.sel)
    /\ FLt(FAbs(FSub(ev.sel[2][1], ev.sel[1][1])), FromInt(10))
    /\ ~FLt(FAbs(FSub(ev.sel[2][2], ev.sel[1][2])), FromInt(10))

\* C6: zoom_to_rectangle only zooms in: with an implied zoom factor <= 1.0
\* (or none) center and zoom are unchanged and the dirty flag stays clear;
\* after any call zoom is unchanged with the same center, or larger.
C6_OnlyZoomsIn ==
    [][(Handled("up") /\ Submitted(ev'.sel)) =>
         LET f == ZoomRectValues(Self, ev'.sel[1], ev'.sel[2],
                                 ev'.rect).zoom_factor
             same == /\ <<center_x', center_y', zoom'>>
                          = <<center_x, center_y, zoom>>
                     /\ needs_redraw' = FALSE
         IN  /\ FLe(f, FromInt(1)) => same
             /\ same \/ FGt(zoom', zoom)]_vars

\* the whole image was selected (factor 1.0) and the view stayed canonical
C6_Witness ==
    /\ ev.kind = "up"
    /\ Submitted(ev.sel)
    /\ ~NarrowSelection(ev.sel)
    /\ ev.rect = FullRect
    /\ ev.sel = <<Pos2(0, 0), Pos2(1300, 900)>>
    /\ ops = 0

RECURSIVE Pow(_, _)
Pow(b, e) == IF e = 0 THEN 1 ELSE b * Pow(b, e - 1)

\* C7: generate_koch_segments(start, end, d) appends exactly 4^d segments
\* for every depth d in 0..5, and at depth 0 exactly the segment
\* (start, end), unchanged.
C7_KochSegmentCount ==
    ret # None =>
        /\ Len(ret.segments) = Pow(4, call.depth)
        /\ call.depth = 0 => ret.segments = <<<<call.start, call.end>>>>

\* the deepest subdivision of a slanted segment has returned
C7_Witness ==
    /\ ret # None
    /\ call.depth = MaxDepth
    /\ call.start[1] # call.end[1] /\ call.start[2] # call.end[2]
    /\ Len(ret.segments) = 1024

\* C8: for every pixel and view the escape-time loop terminates, with an
\* iteration count in [0, max_iter]; max_iter lies in [255, 1000] for every
\* zoom > 0.  Termination is by the variant max_iter - iter: it is never
\* negative, and a pass of the loop either ends it or raises iter by one
\* and leaves max_iter alone.
C8_EscapeTerminates ==
    /\ [](ret # None =>
            /\ 0 <= ret.iter /\ ret.iter <= ret.max_iter
            /\ FGt(call.s.zoom, FromInt(0)) =>
                  (255 <= ret.max_iter /\ ret.max_iter <= 1000))
    /\ [][(ret # None /\ ~ret.done) =>
            \/ ret'.done /\ ret'.iter = ret.iter
            \/ /\ ~ret'.done
               /\ ret'.iter = ret.iter + 1
               /\ ret'.max_iter = ret.max_iter]_vars

\* a pixel inside the set, zoomed in beyond the cap: the loop ended at the
\* 1000th iteration
C8_Witness ==
    /\ ret # None /\ ret.done
    /\ call.s.zoom = FromInt(100000000)
    /\ ret.iter = 1000 /\ ret.max_iter = 1000

\* C9: a pan gesture that comes back to the position it began at, with
\* nothing but pans in between, restores center to its value at the start.
C9_PanRoundTrip ==
    (pan_origin # None /\ dragging /\ last_mouse_pos = pan_origin.pos) =>
        <<center_x, center_y>> = <<pan_origin.center_x, pan_origin.center_y>>

\* the pointer is back where the pan began, after the view had moved
C9_Witness ==
    /\ pan_origin # None /\ pan_origin.paid
    /\ dragging
    /\ last_mouse_pos = pan_origin.pos

\* the canonical view of each variant, as the specification lists them
CanonicalView(ft) ==
    IF ft = "Mandelbrot" THEN <<Rat(-1, 2), FromInt(0), FromInt(1)>>
    ELSE IF ft = "Julia" THEN <<FromInt(0), FromInt(0), Rat(15, 10)>>
    ELSE <<FromInt(0), Rat(-2, 10), Rat(8, 10)>>

\* C10: Reset View and a variant switch set (center, zoom) to the canonical
\* pair of the active variant whatever the state before, leave julia_c
\* unchanged and set the dirty flag.
C10_ResetIsCanonical ==
    [][(pc = "panel" /\ pc' = "central" /\ ev'.kind \in {"reset", "select"}) =>
         /\ <<center_x', center_y', zoom'>> = CanonicalView(fractal_type')
         /\ <<julia_c_real', julia_c_imag'>> = <<julia_c_real, julia_c_imag>>
         /\ needs_redraw']_vars

\* Reset View was pressed for the Koch variant while the view was elsewhere
C10_Witness ==
    /\ pc = "central" /\ ev.kind = "reset"
    /\ fractal_type = "Koch"
    /\ texture # None /\ texture.fractal_type = "Koch"
    /\ texture.zoom # zoom

\* C11: whenever the center is finite and zoom > 0, the view bounds of
\* generate_fractal_image are centered on the center, their horizontal extent
\* is 4.5/zoom and their vertical extent 3/zoom, and pixel (WIDTH/2, HEIGHT/2)
\* maps to the center; for center (-0.5, 0) and zoom 1 the bounds are
\* left -2.75, right 1.75, top -1.5, bottom 1.5 and pixel (600, 400) maps to
\* (-0.5, 0).
C11_ViewBounds ==
    (IsFinite(center_x) /\ IsFinite(center_y) /\ FGt(zoom, FromInt(0))) =>
        /\ FSub(view_bounds(Self).right, view_bounds(Self).left)
               = FDiv(Rat(9, 2), zoom)
        /\ FSub(view_bounds(Self).bottom, view_bounds(Self).top)
               = FDiv(FromInt(3), zoom)
        /\ FAdd(view_bounds(Self).left, view_bounds(Self).right)
               = FMul(FromInt(2), center_x)
        /\ FAdd(view_bounds(Self).top, view_bounds(Self).bottom)
               = FMul(FromInt(2), center_y)
        /\ pixel_to_plane(Self, WIDTH \div 2, HEIGHT \div 2)
               = <<center_x, center_y>>
        /\ (<<center_x, center_y, zoom>> = <<Rat(-1, 2), FromInt(0), FromInt(1)>>
              => /\ view_bounds(Self) = [left |-> Rat(-11, 4), right |-> Rat(7, 4),
                                         top |-> Rat(-3, 2), bottom |-> Rat(3, 2)]
                 /\ pixel_to_plane(Self, 600, 400) = <<Rat(-1, 2), FromInt(0)>>)

\* an image was drawn from a zoomed view whose center is off the origin in
\* both coordinates
C11_Witness ==
    /\ texture # None /\ ~needs_redraw
    /\ texture = generate_fractal_image(Self)
    /\ IsFinite(center_x) /\ ~IsZero(center_x)
    /\ IsFinite(center_y) /\ ~IsZero(center_y)
    /\ IsFinite(zoom) /\ zoom # FromInt(1)

\* what the image depends on: the viewport, the variant and julia_c
Rendered(r) == generate_fractal_image(r)

\* C12: in every reachable state the dirty flag is set or the cached image
\* was computed from the current (center, zoom, variant, julia_c); every step
\* that changes one of these sets the flag; the flag is cleared only by a
\* recompute, which draws the image from the view it finds; Tab changes
\* neither the view nor the flag nor the image.
C12_DirtyOrFresh ==
    /\ [](needs_redraw \/ (texture # None /\ texture = Rendered(Self)))
    /\ [][/\ (Rendered(Self') # Rendered(Self) => needs_redraw')
           /\ ((needs_redraw /\ ~needs_redraw')
                 => pc = "central" /\ texture' = Rendered(Self))
           /\ ((pc = "panel" /\ ev'.kind = "Tab")
                 => /\ Rendered(Self') = Rendered(Self)
                    /\ needs_redraw' = needs_redraw
                    /\ texture' = texture
                    /\ show_controls' = ~show_controls)]_vars

\* the view was zoomed in by a key and the image drawn again from it
C12_Witness ==
    /\ ~needs_redraw
    /\ texture # None /\ texture = Rendered(Self)
    /\ fractal_type = "Mandelbrot"
    /\ zoom = Rat(3, 2)
    /\ ops > 0

\* a pointer-up released a selection and zoom_to_rectangle applied it
Applied == Handled("up") /\ Submitted(ev'.sel) /\ needs_redraw'

\* C13: when zoom_to_rectangle applies a selection, the new center is the
\* midpoint of the selected plane rectangle, zoom is multiplied by the smaller
\* of the two per-axis factors, and the selected plane rectangle lies inside
\* the new view bounds: the new horizontal extent is at least the selected
\* width and the new vertical extent at least the selected height.
C13_SelectionStaysVisible ==
    [][Applied =>
         \A v \in {ZoomRectValues(Self, ev'.sel[1], ev'.sel[2], ev'.rect)} :
             /\ center_x' = FDiv(FAdd(v.selected_left, v.selected_right),
                                 FromInt(2))
             /\ center_y' = FDiv(FAdd(v.selected_top, v.selected_bottom),
                                 FromInt(2))
             /\ zoom' = FMul(zoom, FMin(FDiv(v.width_range, v.selected_width),
                                        FDiv(v.height_range, v.selected_height)))
             /\ FGe(view_ranges(Self').width_range, v.selected_width)
             /\ FGe(view_ranges(Self').height_range, v.selected_height)
             /\ FLe(view_bounds(Self').left, v.selected_left)
             /\ FGe(view_bounds(Self').right, v.selected_right)
             /\ FLe(view_bounds(Self').top, v.selected_top)
             /\ FGe(view_bounds(Self').bottom, v.selected_bottom)]_vars

\* the same for the selections whose plane rectangle is a rectangle of
\* numbers: no coordinate of it is NaN
C13_VisibleWhenFinite ==
    [][Applied =>
         \A v \in {ZoomRectValues(Self, ev'.sel[1], ev'.sel[2], ev'.rect)} :
             (IsFinite(v.selected_left) /\ IsFinite(v.selected_right)
                /\ IsFinite(v.selected_top) /\ IsFinite(v.selected_bottom)) =>
             /\ center_x' = FDiv(FAdd(v.selected_left, v.selected_right),
                                 FromInt(2))
             /\ center_y' = FDiv(FAdd(v.selected_top, v.selected_bottom),
                                 FromInt(2))
             /\ zoom' = FMul(zoom, FMin(FDiv(v.width_range, v.selected_width),
                                        FDiv(v.height_range, v.selected_height)))
             /\ FGe(view_ranges(Self').width_range, v.selected_width)
             /\ FGe(view_ranges(Self').height_range, v.selected_height)
             /\ FLe(view_bounds(Self').left, v.selected_left)
             /\ FGe(view_bounds(Self').right, v.selected_right)
             /\ FLe(view_bounds(Self').top, v.selected_top)
             /\ FGe(view_bounds(Self').bottom, v.selected_bottom)]_vars

\* a selection was released and applied while the image rectangle had no
\* width: the center written is NaN
C13_Witness ==
    /\ ev.kind = "up"
    /\ Submitted(ev.sel)
    /\ ev.rect = ThinRect
    /\ needs_redraw
    /\ IsNaN(center_x)
    /\ IsFinite(zoom)

\* a coordinate of one of the segments is NaN
HasNaN(segments) ==
    \E i \in 1..Len(segments) : \E e \in 1..2 : \E k \in 1..2 :
        IsNaN(segments[i][e][k])

\* C14: the subdivision of a segment of length zero (start = end) at a
\* depth > 0 is a no-op that divides nothing by zero: no segment it emits
\* has a NaN coordinate.
C14_ZeroLengthNoNaN ==
    (ret # None /\ "segments" \in DOMAIN ret
       /\ call.start = call.end /\ call.depth > 0)
        => ~HasNaN(ret.segments)

\* a segment of length zero was subdivided once: four segments came back,
\* and the peak of the bump is NaN in both coordinates
C14_Witness ==
    /\ ret # None /\ "segments" \in DOMAIN ret
    /\ call.start = call.end /\ call.depth = 1
    /\ Len(ret.segments) = 4
    /\ ret.segments[2][2] = <<NaN, NaN>>
    /\ ret.segments[3][1] = <<NaN, NaN>>
    /\ ~HasNaN(<<ret.segments[1], ret.segments[4]>>)

\* the gesture state Idle: no flag set and no transient gesture data held
Idle(r) ==
    /\ ~r.dragging /\ r.last_mouse_pos = None
    /\ ~r.selecting_zoom_rect
    /\ r.zoom_rect_start = None /\ r.zoom_rect_end = None

\* C15: every pointer-up returns the gesture state to Idle: after it
\* dragging and selecting_zoom_rect are false and last_mouse_pos,
\* zoom_rect_start and zoom_rect_end are None, whichever gesture it ended;
\* and in no reachable state is a gesture active, or gesture data held,
\* unless a drag of the image is in progress.
C15_PointerUpReturnsToIdle ==
    /\ [](~widget_dragged => Idle(Self))
    /\ [][Handled("up") => Idle(Self')]_vars

\* a pan that moved the view in both coordinates has been released
C15_Witness ==
    /\ ev.kind = "up" /\ ev.sel = None
    /\ ~widget_dragged
    /\ Idle(Self)
    /\ zoom = CanonicalView(fractal_type)[3]
    /\ center_x # CanonicalView(fractal_type)[1]
    /\ center_y # CanonicalView(fractal_type)[2]

\* every end point of the image lies in the WIDTH by HEIGHT buffer
InBuffer(image) ==
    \A i \in 1..Len(image) : \A e \in 1..2 :
        /\ image[i][e][1] >= 0 /\ image[i][e][1] < WIDTH
        /\ image[i][e][2] >= 0 /\ image[i][e][2] < HEIGHT

\* no end point of the two images differs by more than n pixels
Within(n, image_a, image_b) ==
    /\ Len(image_a) = Len(image_b)
    /\ \A i \in 1..Len(image_a) : \A e \in 1..2 : \A k \in 1..2 :
          Abs(image_a[i][e][k] - image_b[i][e][k]) <= n

====
